---- MODULE Spec2Model ----
(***************************************************************************)
(* Model of src/src/context.py: the dotted-access mapping DotDict and the  *)
(* invocation context Context.                                             *)
(*                                                                         *)
(* Python values are modelled as documents: a document is a set of         *)
(* <<path, leaf>> entries, path a sequence of dict keys and leaf a tagged  *)
(* tuple.  A scalar is the document with the single entry <<<<>>, leaf>>,  *)
(* the empty dict is the scalar <<"dict">>, a non-empty dict holds only    *)
(* entries with non-empty paths.  A Python str is the leaf                 *)
(* <<"str", t1, ..., tn>> whose tokens are either the separator "/" or a   *)
(* slash-free run of characters.                                           *)
(***************************************************************************)
EXTENDS Integers, Sequences, FiniteSets, TLC

VARIABLES globals, env, fs, ctx, res, d, dres, hist

vars == <<globals, env, fs, ctx, res, d, dres, hist>>

\* ------------------------------------------------------------------------
\* Bounds
\* ------------------------------------------------------------------------
MaxEnvSet == 1
MaxOps == 3

\* ------------------------------------------------------------------------
\* Python values
\* ------------------------------------------------------------------------
Scalar(leaf) == {<<<< >>, leaf>>}

None == Scalar(<<"none">>)

EmptyDict == Scalar(<<"dict">>)

PyInt(digits) == Scalar(<<"int", digits>>)

PyStr(tokens) == Scalar(<<"str">> \o tokens)

IsDict(v) == \A e \in v : Len(e[1]) > 0 \/ e[2] = <<"dict">>

StrTokens(v) == Tail((CHOOSE e \in v : TRUE)[2])

DictKeys(v) == {e[1][1] : e \in {x \in v : Len(x[1]) > 0}}

\* v[k] for a key the dict holds
dict_getitem(v, k) ==
    {<<Tail(e[1]), e[2]>> : e \in {x \in v : Len(x[1]) > 0 /\ x[1][1] = k}}

\* v.get(k, default)
dict_get(v, k, default) ==
    IF k \in DictKeys(v) THEN dict_getitem(v, k) ELSE default

\* v[k] = val
dict_setitem(v, k, val) ==
    {x \in v : Len(x[1]) > 0 /\ x[1][1] # k}
        \cup {<<(<<k>> \o e[1]), e[2]>> : e \in val}

\* del v[k]
dict_delitem(v, k) ==
    LET rest == {x \in v : Len(x[1]) > 0 /\ x[1][1] # k}
    IN  IF rest = {} THEN EmptyDict ELSE rest

\* Outcome of a call: a returned value or a raised exception
Return(v) == [kind |-> "return", exc |-> "", value |-> v]

Raise(e) == [kind |-> "raise", exc |-> e, value |-> None]

\* ------------------------------------------------------------------------
\* Module namespace
\* ------------------------------------------------------------------------
\* The class names the file can leave bound.  NestedDict is bound nowhere,
\* so the class statement of Event (line 22) raises NameError: under
\* `import` the whole module is discarded; executed statement by statement
\* DotDict stays bound, and Context is bound only when the annotation
\* `-> Event` of line 110 is not evaluated at definition time.
LoadOutcomes == { {}, {"DotDict"}, {"DotDict", "Context"} }

\* ------------------------------------------------------------------------
\* DotDict
\* ------------------------------------------------------------------------
\* Attribute names of the dict type itself: normal attribute lookup finds
\* them, so __getattr__ is never consulted for them.
DictTypeAttrs == {"items"}

BuiltinMethod(name) == Scalar(<<"method", name>>)

DotDict_getattr_Subscript(self, attr) ==
    IF attr \in DictKeys(self)
    THEN IF IsDict(dict_getitem(self, attr))
         THEN Raise("NameError")
         ELSE Return(dict_getitem(self, attr))
    ELSE Raise("KeyError")

\* DotDict.__getattr__; the name NestedDict of line 12 is unbound
DotDict_getattr(self, attr) ==
    LET value == dict_get(self, attr, None)
    IN  IF IsDict(value)
        THEN Raise("NameError")
        ELSE Return(value)

\* obj.attr on a DotDict instance
DotDict_read(self, attr) ==
    IF attr \in DictTypeAttrs
    THEN Return(BuiltinMethod(attr))
    ELSE DotDict_getattr(self, attr)

\* obj.a.b on a DotDict instance; a value that is not a mapping has no
\* attribute b
DotDict_read2(self, a, b) ==
    LET r1 == DotDict_read(self, a)
    IN  IF r1.kind = "raise" THEN r1 ELSE Raise("AttributeError")

\* DotDict.__setattr__
DotDict_setattr(self, key, value) ==
    [out |-> Return(None), self |-> dict_setitem(self, key, value)]

DotDict_delattr_Unguarded(self, item) ==
    IF item \in DictKeys(self)
    THEN [out |-> Return(None), self |-> dict_delitem(self, item)]
    ELSE [out |-> Raise("KeyError"), self |-> self]

\* DotDict.__delattr__
DotDict_delattr(self, item) ==
    IF item \in DictKeys(self)
    THEN [out |-> Return(None), self |-> dict_delitem(self, item)]
    ELSE [out |-> Return(None), self |-> self]

\* Attribute names and values the mapping is exercised with
Keys == {"x", "y", "items"}

Nested == dict_setitem(EmptyDict, "y", PyInt("1"))

DotValues == {PyInt("1"), None, Nested}

NoResult == [op |-> "none", key |-> "", key2 |-> "", out |-> Return(None)]

\* d.key = value
SetAttr(key, value) ==
    /\ "DotDict" \in globals
    /\ Len(hist) < MaxOps
    /\ LET r == DotDict_setattr(d, key, value)
       IN  /\ d' = r.self
           /\ dres' = [op |-> "set", key |-> key, key2 |-> "", out |-> r.out]
    /\ hist' = Append(hist, <<"set", key, value>>)
    /\ UNCHANGED <<globals, env, fs, ctx, res>>

\* del d.key
DelAttr(key) ==
    /\ "DotDict" \in globals
    /\ Len(hist) < MaxOps
    /\ LET r == DotDict_delattr(d, key)
       IN  /\ d' = r.self
           /\ dres' = [op |-> "del", key |-> key, key2 |-> "", out |-> r.out]
    /\ hist' = Append(hist, <<"del", key, None>>)
    /\ UNCHANGED <<globals, env, fs, ctx, res>>

\* d.key
GetAttr(key) ==
    /\ "DotDict" \in globals
    /\ dres' = [op |-> "get", key |-> key, key2 |-> "",
                out |-> DotDict_read(d, key)]
    /\ UNCHANGED <<globals, env, fs, ctx, res, d, hist>>

\* d.key.key2
GetAttr2(key, key2) ==
    /\ "DotDict" \in globals
    /\ dres' = [op |-> "get2", key |-> key, key2 |-> key2,
                out |-> DotDict_read2(d, key, key2)]
    /\ UNCHANGED <<globals, env, fs, ctx, res, d, hist>>

\* ------------------------------------------------------------------------
\* Process environment and file system
\* ------------------------------------------------------------------------
Unset == Scalar(<<"unset">>)

NoFile == Scalar(<<"nofile">>)

\* File content that is not a JSON document
Malformed == Scalar(<<"malformed">>)

\* os.getenv(name, default)
os_getenv(e, name, default) == IF e[name] = Unset THEN default ELSE e[name]

\* os.path.exists(path)
os_path_exists(f, path) == path \in DOMAIN f /\ f[path] # NoFile

\* json.load(file)
json_load(content) ==
    IF content = Malformed THEN Raise("JSONDecodeError") ELSE Return(content)

\* bool(v) for None and str
Truthy(v) == v # None /\ v # PyStr(<< >>)

RECURSIVE str_split(_)
\* str.split('/') on the tokens of a str
str_split(tokens) ==
    IF tokens = << >> THEN << << >> >>
    ELSE LET rest == str_split(Tail(tokens))
         IN  IF Head(tokens) = "/"
             THEN << << >> >> \o rest
             ELSE << (<<Head(tokens)>> \o rest[1]) >> \o Tail(rest)

\* v[k] as an expression that can raise
Subscript(v, k) ==
    IF ~IsDict(v) THEN Raise("TypeError")
    ELSE IF k \in DictKeys(v) THEN Return(dict_getitem(v, k))
    ELSE Raise("KeyError")

\* ------------------------------------------------------------------------
\* Context
\* ------------------------------------------------------------------------
ClassAttrs_IntAsStr ==
    [payload     |-> EmptyDict,
     event_name  |-> PyStr(<< >>),
     sha         |-> PyStr(<< >>),
     ref         |-> PyStr(<< >>),
     workflow    |-> PyStr(<< >>),
     action      |-> PyStr(<< >>),
     actor       |-> PyStr(<< >>),
     job         |-> PyStr(<< >>),
     run_attempt |-> PyInt("0"),
     run_number  |-> PyInt("0"),
     run_id      |-> PyStr(<<"0">>),
     api_url     |-> PyStr(<<"https:", "/", "/", "api.github.com">>),
     server_url  |-> PyStr(<<"https:", "/", "/", "github.com">>),
     graphql_url |-> PyStr(<<"https:", "/", "/", "api.github.com", "/",
                             "graphql">>)]

\* The class attributes of Context: the declared fields and their defaults
ClassAttrs ==
    [payload     |-> EmptyDict,
     event_name  |-> PyStr(<< >>),
     sha         |-> PyStr(<< >>),
     ref         |-> PyStr(<< >>),
     workflow    |-> PyStr(<< >>),
     action      |-> PyStr(<< >>),
     actor       |-> PyStr(<< >>),
     job         |-> PyStr(<< >>),
     run_attempt |-> PyInt("0"),
     run_number  |-> PyInt("0"),
     run_id      |-> PyInt("0"),
     api_url     |-> PyStr(<<"https:", "/", "/", "api.github.com">>),
     server_url  |-> PyStr(<<"https:", "/", "/", "github.com">>),
     graphql_url |-> PyStr(<<"https:", "/", "/", "api.github.com", "/",
                             "graphql">>)]

Fields == DOMAIN ClassAttrs

\* field.upper()
upper ==
    [payload     |-> "PAYLOAD",
     event_name  |-> "EVENT_NAME",
     sha         |-> "SHA",
     ref         |-> "REF",
     workflow    |-> "WORKFLOW",
     action      |-> "ACTION",
     actor       |-> "ACTOR",
     job         |-> "JOB",
     run_attempt |-> "RUN_ATTEMPT",
     run_number  |-> "RUN_NUMBER",
     run_id      |-> "RUN_ID",
     api_url     |-> "API_URL",
     server_url  |-> "SERVER_URL",
     graphql_url |-> "GRAPHQL_URL"]

\* 'GITHUB_' + field.upper()
EnvVar(field) == "GITHUB_" \o upper[field]

\* field.startswith('_')
startswith_underscore(field) == field \in {"__init__", "_get_payload"}

\* callable(value)
callable(value) == \E e \in value : e[2][1] = "method"

\* getattr(self, field): the instance __dict__ first, then the class
getattr(self, field) ==
    IF field \in DictKeys(self) THEN dict_getitem(self, field)
    ELSE ClassAttrs[field]

Context_get_payload_NoExistsCheck(e, f) ==
    LET event_path == os_getenv(e, "GITHUB_EVENT_PATH", None)
    IN  IF Truthy(event_path)
        THEN IF os_path_exists(f, event_path)
             THEN json_load(f[event_path])
             ELSE Raise("FileNotFoundError")
        ELSE Return(EmptyDict)

\* Context._get_payload
Context_get_payload(e, f) ==
    LET event_path == os_getenv(e, "GITHUB_EVENT_PATH", None)
    IN  IF Truthy(event_path) /\ os_path_exists(f, event_path)
        THEN json_load(f[event_path])
        ELSE Return(EmptyDict)

\* Context.__init__; self.__dict__ of the new instance is empty, the
\* declared fields being attributes of the class
Context_init(e, f) ==
    LET self0  == EmptyDict
        fields == {field \in DictKeys(self0) :
                      /\ ~startswith_underscore(field)
                      /\ ~callable(getattr(self0, field))}
        self1  == IF fields = {} THEN self0
                  ELSE {x \in self0 : Len(x[1]) > 0 /\ x[1][1] \notin fields}
                       \cup UNION {dict_setitem({}, field,
                                       os_getenv(e, EnvVar(field),
                                                 getattr(self0, field)))
                                   : field \in fields}
        p      == Context_get_payload(e, f)
    IN  IF p.kind = "raise"
        THEN [out |-> p, self |-> self1]
        ELSE [out |-> Return(None),
              self |-> dict_setitem(self1, "payload", p.value)]

\* {'owner': owner, 'repo': repo}
RepoDict(owner, repo) ==
    dict_setitem(dict_setitem(EmptyDict, "owner", owner), "repo", repo)

\* owner, repo = repository.split('/') and the dict built from them
RepoFromEnv(repository) ==
    LET parts == str_split(StrTokens(repository))
    IN  IF Len(parts) = 2
        THEN Return(RepoDict(PyStr(parts[1]), PyStr(parts[2])))
        ELSE Raise("ValueError: unpack")

RepoFromPayload_Swapped(payload) ==
    LET rep   == dict_getitem(payload, "repository")
        own   == Subscript(rep, "owner")
        login == Subscript(own.value, "login")
        name  == Subscript(rep, "name")
    IN  IF own.kind = "raise" THEN own
        ELSE IF login.kind = "raise" THEN login
        ELSE IF name.kind = "raise" THEN name
        ELSE Return(RepoDict(name.value, login.value))

\* the dict built from payload['repository']
RepoFromPayload(payload) ==
    LET rep   == dict_getitem(payload, "repository")
        own   == Subscript(rep, "owner")
        login == Subscript(own.value, "login")
        name  == Subscript(rep, "name")
    IN  IF own.kind = "raise" THEN own
        ELSE IF login.kind = "raise" THEN login
        ELSE IF name.kind = "raise" THEN name
        ELSE Return(RepoDict(login.value, name.value))

RepoError_Returned ==
    Return(PyStr(<<"context.repo requires a GITHUB_REPOSITORY">>))

\* raise ValueError("context.repo requires a GITHUB_REPOSITORY ...")
RepoError == Raise("ValueError: context.repo requires a GITHUB_REPOSITORY")

Context_repo_PayloadFirst(self, e) ==
    LET repository == os_getenv(e, "GITHUB_REPOSITORY", None)
        payload    == getattr(self, "payload")
    IN  IF "repository" \in DictKeys(payload) THEN RepoFromPayload(payload)
        ELSE IF Truthy(repository) THEN RepoFromEnv(repository)
        ELSE RepoError

\* Context.repo
Context_repo(self, e) ==
    LET repository == os_getenv(e, "GITHUB_REPOSITORY", None)
        payload    == getattr(self, "payload")
    IN  IF Truthy(repository) THEN RepoFromEnv(repository)
        ELSE IF "repository" \in DictKeys(payload) THEN RepoFromPayload(payload)
        ELSE RepoError

\* Event(**kwargs): the class statement of Event (line 22) names the
\* unbound base NestedDict and raises, so the name Event is unbound
Event(kwargs, number) == Raise("NameError")

\* Context.issue; the callee of line 116 is looked up before its arguments
Context_issue(self, e) ==
    LET payload == getattr(self, "payload")
        inner   == dict_get(payload, "pull_request", payload)
        target  == dict_get(payload, "issue", inner)
        number  == dict_get(target, "number", None)
    IN  IF ~IsDict(target) THEN Raise("AttributeError")
        ELSE Event(Context_repo(self, e), number)

\* Inputs the context is exercised with
Obj(k, v) == dict_setitem(EmptyDict, k, v)

Number(n) == Obj("number", PyInt(n))

Repository(o, n) ==
    dict_setitem(Obj("owner", Obj("login", PyStr(<<o>>))), "name", PyStr(<<n>>))

Payloads ==
    { EmptyDict,
      Obj("issue", Number("7")),
      Obj("pull_request", Number("9")),
      Number("5"),
      dict_setitem(Obj("issue", EmptyDict), "pull_request", Number("9")),
      Obj("issue", None),
      dict_setitem(Obj("issue", Number("7")), "repository",
                   Repository("octocat", "Hello-World")),
      dict_setitem(Obj("pull_request", Number("9")), "repository",
                   Repository("other", "Repo")),
      Obj("repository", Obj("name", PyStr(<<"Hello-World">>))) }

EventFile == PyStr(<<"/", "event.json">>)

Paths == {EventFile}

EventPathValues == {Unset, PyStr(<< >>), EventFile}

RepositoryValues ==
    { Unset,
      PyStr(<< >>),
      PyStr(<<"octocat", "/", "Hello-World">>),
      PyStr(<<"octocat">>),
      PyStr(<<"octocat", "/", "Hello-World", "/", "x">>) }

FieldEnvValues == {PyStr(<<"42">>), PyStr(<<"main">>)}

FieldEnvNames == {EnvVar(field) : field \in Fields}

EnvNames == FieldEnvNames \cup {"GITHUB_REPOSITORY", "GITHUB_EVENT_PATH"}

\* Environments that set at most MaxEnvSet of the field variables
Environments ==
    UNION { { [n \in EnvNames |->
                  IF n = "GITHUB_REPOSITORY" THEN r
                  ELSE IF n = "GITHUB_EVENT_PATH" THEN p
                  ELSE IF n \in S THEN g[n] ELSE Unset]
              : g \in [S -> FieldEnvValues],
                r \in RepositoryValues, p \in EventPathValues }
            : S \in {T \in SUBSET FieldEnvNames : Cardinality(T) <= MaxEnvSet} }

NoEnvironment == [n \in EnvNames |-> Unset]

FileSystems == [Paths -> Payloads \cup {Malformed, NoFile}]

NoContext == [state |-> "none", self |-> EmptyDict]

NoAccess == [op |-> "none", out |-> Return(None)]

\* ctx = Context()
Construct ==
    /\ "Context" \in globals
    /\ ctx.state = "none"
    /\ LET r == Context_init(env, fs)
       IN  /\ ctx' = [state |-> IF r.out.kind = "return" THEN "constructed"
                                ELSE "failed",
                      self  |-> r.self]
           /\ res' = [op |-> "init", out |-> r.out]
    /\ UNCHANGED <<globals, env, fs, d, dres, hist>>

\* ctx.repo
AccessRepo ==
    /\ ctx.state = "constructed"
    /\ res' = [op |-> "repo", out |-> Context_repo(ctx.self, env)]
    /\ UNCHANGED <<globals, env, fs, ctx, d, dres, hist>>

\* ctx.issue
AccessIssue ==
    /\ ctx.state = "constructed"
    /\ res' = [op |-> "issue", out |-> Context_issue(ctx.self, env)]
    /\ UNCHANGED <<globals, env, fs, ctx, d, dres, hist>>

\* ------------------------------------------------------------------------
\* Specifications
\* ------------------------------------------------------------------------
Init ==
    /\ globals \in LoadOutcomes
    /\ env \in Environments
    /\ fs \in FileSystems
    /\ ctx = NoContext
    /\ res = NoAccess
    /\ d = EmptyDict
    /\ dres = NoResult
    /\ hist = << >>

Next ==
    \/ Construct
    \/ AccessRepo
    \/ AccessIssue

Spec == Init /\ [][Next]_vars

DotInit ==
    /\ globals \in LoadOutcomes
    /\ env = NoEnvironment
    /\ fs = [path \in Paths |-> NoFile]
    /\ ctx = NoContext
    /\ res = NoAccess
    /\ d = EmptyDict
    /\ dres = NoResult
    /\ hist = << >>

DotNext ==
    \/ \E key \in Keys, value \in DotValues : SetAttr(key, value)
    \/ \E key \in Keys : DelAttr(key)
    \/ \E key \in Keys : GetAttr(key)
    \/ \E key \in Keys, key2 \in Keys : GetAttr2(key, key2)

DotSpec == DotInit /\ [][DotNext]_vars

TypeOK ==
    /\ globals \in LoadOutcomes
    /\ ctx.state \in {"none", "constructed", "failed"}
    /\ res.op \in {"none", "init", "repo", "issue"}
    /\ dres.op \in {"none", "set", "del", "get", "get2"}
    /\ Len(hist) <= MaxOps

\* ------------------------------------------------------------------------
\* Properties
\* ------------------------------------------------------------------------
\* The value a document holds at a path of keys, None when it holds none
Lookup(v, path) ==
    LET n   == Len(path)
        sub == {<<SubSeq(x[1], n + 1, Len(x[1])), x[2]>> :
                   x \in {y \in v : Len(y[1]) >= n /\ SubSeq(y[1], 1, n) = path}}
    IN  IF sub = {} THEN {<<<< >>, <<"none">>>>} ELSE sub

Returned(v) == [kind |-> "return", exc |-> "", value |-> v]

HasKey(v, key) == \E x \in v : Len(x[1]) > 0 /\ x[1][1] = key

OwnerRepo(o, n) ==
    {<<<<"owner">>, <<"str">> \o o>>, <<<<"repo">>, <<"str">> \o n>>}

NameTokens == {<<"octocat">>, <<"Hello-World">>, <<"other">>, <<"Repo">>}

ThePayload == Lookup(ctx.self, <<"payload">>)

DataFields == Fields \ {"payload"}

\* C1: after construction every declared field whose GITHUB_<FIELD>
\* variable is set equals the variable's value, as a string.
C1_FieldEqualsEnvironment ==
    ctx.state = "constructed" =>
        \A field \in DataFields :
            env[EnvVar(field)] # Unset =>
                getattr(ctx.self, field) = env[EnvVar(field)]

\* The number the payload designates: issue.number, else
\* pull_request.number, else number
DesignatedNumber(payload) ==
    IF Lookup(payload, <<"issue", "number">>) # None
    THEN Lookup(payload, <<"issue", "number">>)
    ELSE IF Lookup(payload, <<"pull_request", "number">>) # None
    THEN Lookup(payload, <<"pull_request", "number">>)
    ELSE Lookup(payload, <<"number">>)

\* C2: for every payload, issue returns a record whose number is
\* payload.issue.number, else payload.pull_request.number, else
\* payload.number.
C2_IssueNumber ==
    res.op = "issue" =>
        /\ res.out.kind = "return"
        /\ Lookup(res.out.value, <<"number">>) = DesignatedNumber(ThePayload)

C6_ChainedRead ==
    ( /\ dres.op = "get2"
      /\ dres.key \notin DictTypeAttrs
      /\ Lookup(d, <<dres.key>>) # None
      /\ Lookup(d, <<dres.key, dres.key2>>) # None )
    => dres.out = Returned(Lookup(d, <<dres.key, dres.key2>>))

LastWrite(key) ==
    LET at == {i \in 1..Len(hist) : hist[i][2] = key}
    IN  IF at = {} THEN 0 ELSE CHOOSE i \in at : \A j \in at : j <= i

\* C8: the mapping holds exactly the keys set and not deleted afterwards,
\* each with its last set value; neither a set nor a delete raises, a
\* delete of a key that is not present included.
C8_MappingHoldsLastWrites ==
    /\ DictKeys(d) \subseteq Keys
    /\ \A key \in Keys :
           LET i == LastWrite(key)
           IN  IF i # 0 /\ hist[i][1] = "set"
               THEN Lookup(d, <<key>>) = hist[i][3] /\ key \in DictKeys(d)
               ELSE key \notin DictKeys(d)
    /\ dres.op \in {"set", "del"} => dres.out = Returned({<<<< >>, <<"none">>>>})

C8_Witness ==
    /\ Len(hist) = 3
    /\ hist[1][1] = "set" /\ hist[1][2] = "x"
    /\ hist[2][1] = "set" /\ hist[2][2] = "y"
    /\ hist[3] = <<"del", "x", None>>
    /\ DictKeys(d) = {"y"}

\* The defaults the fields are documented with
DocumentedDefault(field) ==
    IF field \in {"run_attempt", "run_number", "run_id"}
    THEN {<<<< >>, <<"int", "0">>>>}
    ELSE IF field = "api_url"
    THEN {<<<< >>, <<"str", "https:", "/", "/", "api.github.com">>>>}
    ELSE IF field = "server_url"
    THEN {<<<< >>, <<"str", "https:", "/", "/", "github.com">>>>}
    ELSE IF field = "graphql_url"
    THEN {<<<< >>, <<"str", "https:", "/", "/", "api.github.com", "/", "graphql">>>>}
    ELSE {<<<< >>, <<"str">>>>}

EventFileExists ==
    /\ env["GITHUB_EVENT_PATH"] \in DOMAIN fs
    /\ fs[env["GITHUB_EVENT_PATH"]] # NoFile

====
